---- MODULE Spec2Model ----
(***************************************************************************)
(* State-machine model of the PDF summarizer: the presentation layer       *)
(* (js/ui/uploadUI.js), the validation utility (js/utils/fileHandler.js),  *)
(* the orchestrator (PDFSummarizerApp.handleSummarize) and the Gemini      *)
(* client (GeminiClient).                                                  *)
(*                                                                         *)
(* Text is modelled as a sequence of fragments: user and service text is a *)
(* sequence of one-character strings, a literal of the source is one       *)
(* fragment.  A value that may be null is a record with a `null` flag.     *)
(***************************************************************************)
EXTENDS Integers, Sequences, FiniteSets, TLC

\* ------------------------------------------------------------------ bounds

\* Summarize runs that may be awaiting at the same time.
MaxInFlight == 2
\* Longest parts list of a candidate of a generation response.
MaxParts == 2
\* Most status responses one waitForFileProcessing call consumes.
MaxPolls == 3

\* ------------------------------------------------------------------ text

RECURSIVE TrimStart(_)
TrimStart(s) == IF s # <<>> /\ Head(s) = " " THEN TrimStart(Tail(s)) ELSE s

RECURSIVE TrimEnd(_)
TrimEnd(s) ==
    IF s # <<>> /\ s[Len(s)] = " " THEN TrimEnd(SubSeq(s, 1, Len(s) - 1)) ELSE s

\* String.prototype.trim
Trim(s) == TrimEnd(TrimStart(s))

\* Array.prototype.join
RECURSIVE Join(_, _)
Join(texts, sep) ==
    IF texts = <<>> THEN <<>>
    ELSE IF Len(texts) = 1 THEN texts[1]
    ELSE texts[1] \o sep \o Join(Tail(texts), sep)

\* Array.prototype.filter, with the predicate given as the set it accepts
RECURSIVE Filter(_, _)
Filter(xs, keep) ==
    IF xs = <<>> THEN <<>>
    ELSE IF Head(xs) \in keep THEN <<Head(xs)>> \o Filter(Tail(xs), keep)
    ELSE Filter(Tail(xs), keep)

\* String.prototype.split on a one-character separator
RECURSIVE Split(_, _)
Split(s, sep) ==
    IF \A i \in 1..Len(s) : s[i] # sep THEN <<s>>
    ELSE LET k == CHOOSE i \in 1..Len(s) :
                     s[i] = sep /\ \A j \in 1..(i - 1) : s[j] # sep
         IN <<SubSeq(s, 1, k - 1)>> \o Split(SubSeq(s, k + 1, Len(s)), sep)

SeqsUpTo(S, n) == UNION {[1..k -> S] : k \in 0..n}

\* ------------------------------------------------------------------ values

\* A string or null (localStorage.getItem, UploadUI.apiKey).
NullStr == [null |-> TRUE, s |-> <<>>]
Str(s) == [null |-> FALSE, s |-> s]
\* JavaScript truthiness of a string-or-null
Truthy(v) == ~v.null /\ v.s # <<>>

PDF == "application/pdf"
MiB == 1024 * 1024

\* A File or null (UploadUI.selectedFile).
NoFile == [null |-> TRUE, name |-> "", type |-> "", size |-> 0, bytes |-> ""]
File(n, t, sz, b) == [null |-> FALSE, name |-> n, type |-> t, size |-> sz, bytes |-> b]

\* The files the user can pick or drop.
Files ==
    { File("small.pdf", PDF, 2 * MiB, "%PDF-1"),
      File("big.pdf", PDF, 20 * MiB + 1, "%PDF-2"),
      File("notes.txt", "text/plain", 100, "hi") }

\* The values the API-key field can take.
KeyInputs == { <<>>, <<" ">>, <<"k">> }

\* ------------------------------------------------------------------ FileHandler

DefaultMaxSizeMB == 20

\* isValidPDF taking any file that is there
isValidPDF_AnyFile(file) == ~file.null

\* FileHandler.isValidPDF: `file && file.type === 'application/pdf'`, as a truth value
isValidPDF(file) == ~file.null /\ file.type = PDF

\* isValidFileSize with the comparison lost
isValidFileSize_Always(file, maxSizeMB) == TRUE

\* isValidFileSize with a strict comparison
isValidFileSize_Strict(file, maxSizeMB) == file.size < maxSizeMB * 1024 * 1024

\* FileHandler.isValidFileSize
isValidFileSize(file, maxSizeMB) ==
    LET maxSizeBytes == maxSizeMB * 1024 * 1024
    IN file.size <= maxSizeBytes

\* An optional number argument: undefined when the caller leaves it out.
NoArg == [undefined |-> TRUE, n |-> 0]
Arg(n) == [undefined |-> FALSE, n |-> n]

\* `maxSizeMB = 20`: the default of the parameter
DefaultArg(arg) == IF arg.undefined THEN DefaultMaxSizeMB ELSE arg.n

\* A call of a FileHandler function; `threw` when it reads a field of null.
NoCall ==
    [fn |-> "none", file |-> NoFile, maxSizeMB |-> NoArg, threw |-> FALSE, result |-> FALSE]

\* ------------------------------------------------------------------ HTTP

\* Results of an async method: a returned text, or a thrown value whose
\* `message` may be undefined (a FileReader error event has none).
Return(t) == [kind |-> "return", text |-> t, hasMessage |-> FALSE]
Throw(m) == [kind |-> "throw", text |-> m, hasMessage |-> TRUE]
ThrowEvent == [kind |-> "throw", text |-> <<>>, hasMessage |-> FALSE]

\* Response.ok
Ok(resp) == resp.status \in 200..299

\* `${response.status}`
StatusStr(n) ==
    CASE n = 200 -> "200" [] n = 400 -> "400" [] n = 503 -> "503" [] OTHER -> "?"

\* What JSON.parse and Response.json throw on a text that is not JSON.
SyntaxErrorMessage(form) ==
    IF form = "empty" THEN <<"Unexpected end of JSON input">>
    ELSE <<"Unexpected token < in JSON">>

TypeErrorNoParts == <<"Cannot read properties of undefined (reading 'filter')">>

\* The service's error object {error: {message}}; either level may be missing.
NoError == [hasError |-> FALSE, hasMessage |-> FALSE, message |-> <<>>]
ErrorObjects ==
    { NoError,
      [hasError |-> TRUE, hasMessage |-> FALSE, message |-> <<>>],
      [hasError |-> TRUE, hasMessage |-> TRUE, message |-> <<>>],
      [hasError |-> TRUE, hasMessage |-> TRUE, message |-> <<"q", "u", "o", "t", "a">>] }

\* `error.error?.message || fallback`
ErrorMessageOr(err, fallback) ==
    IF err.hasError /\ err.hasMessage /\ err.message # <<>> THEN err.message
    ELSE fallback

\* ------------------------------------------------------------------ generation responses

\* A part of a candidate's content: {text: ...} or a part without text.
TextPart(t) == [hasText |-> TRUE, text |-> t]
OtherPart == [hasText |-> FALSE, text |-> <<>>]
Parts == { TextPart(<<"A">>), TextPart(<<"B">>), TextPart(<<>>), OtherPart }

NoContent == [hasContent |-> FALSE, hasParts |-> FALSE, parts |-> <<>>]
ContentNoParts == [hasContent |-> TRUE, hasParts |-> FALSE, parts |-> <<>>]
Content(ps) == [hasContent |-> TRUE, hasParts |-> TRUE, parts |-> ps]

Candidates == { NoContent, ContentNoParts } \cup { Content(ps) : ps \in SeqsUpTo(Parts, MaxParts) }
LaterCandidates == { NoContent, Content(<<TextPart(<<"B">>)>>) }

\* The parsed body of the generation endpoint.
GenJson(has, cs, err) == [hasCandidates |-> has, candidates |-> cs, error |-> err]
NoJson == GenJson(FALSE, <<>>, NoError)

GenResults ==
    { GenJson(FALSE, <<>>, NoError), GenJson(TRUE, <<>>, NoError) }
    \cup { GenJson(TRUE, <<c>>, NoError) : c \in Candidates }
    \cup { GenJson(TRUE, <<c, d>>, NoError) : c \in Candidates, d \in LaterCandidates }

HttpResponse(st, txt, form, json) ==
    [status |-> st, statusText |-> txt, body |-> [form |-> form, json |-> json]]

GenResponses ==
    { HttpResponse(200, "OK", "json", j) : j \in GenResults }
    \cup { HttpResponse(200, "OK", f, NoJson) : f \in {"empty", "garbage"} }
    \cup { HttpResponse(st[1], st[2], "json", GenJson(FALSE, <<>>, e)) :
             st \in {<<400, "Bad Request">>, <<503, "Service Unavailable">>},
             e \in ErrorObjects }
    \cup { HttpResponse(503, "Service Unavailable", f, NoJson) : f \in {"empty", "garbage"} }

\* The filter keeping every part
TextBearing_NoFilter(parts) == { parts[i] : i \in 1..Len(parts) }

\* `part => part.text`: the parts whose text is truthy
TextBearing(parts) == { parts[i] : i \in { j \in 1..Len(parts) : parts[j].hasText /\ parts[j].text # <<>> } }

\* `.map(part => part.text)`
MapText(parts) == [i \in 1..Len(parts) |-> parts[i].text]

\* generateSummary without the check of the first candidate's content
generateSummary_NoContentCheck(resp) ==
    IF ~Ok(resp)
    THEN IF resp.body.form # "json" THEN Throw(SyntaxErrorMessage(resp.body.form))
         ELSE Throw(ErrorMessageOr(resp.body.json.error, <<"Failed to generate summary">>))
    ELSE IF resp.body.form # "json" THEN Throw(SyntaxErrorMessage(resp.body.form))
    ELSE LET result == resp.body.json
         IN IF result.hasCandidates /\ Len(result.candidates) >= 1
            THEN IF ~result.candidates[1].hasContent
                 THEN Throw(<<"Cannot read properties of undefined (reading 'parts')">>)
                 ELSE IF ~result.candidates[1].hasParts THEN Throw(TypeErrorNoParts)
                 ELSE Return(Join(MapText(Filter(result.candidates[1].parts,
                                                 TextBearing(result.candidates[1].parts))),
                                  <<"\n">>))
            ELSE Throw(<<"No summary generated">>)

\* GeminiClient.generateSummary, from the response of its fetch on
generateSummary(resp) ==
    IF ~Ok(resp)
    THEN \* `await response.json()` with no try around it
         IF resp.body.form # "json" THEN Throw(SyntaxErrorMessage(resp.body.form))
         ELSE Throw(ErrorMessageOr(resp.body.json.error, <<"Failed to generate summary">>))
    ELSE IF resp.body.form # "json" THEN Throw(SyntaxErrorMessage(resp.body.form))
    ELSE LET result == resp.body.json
         IN IF result.hasCandidates /\ Len(result.candidates) >= 1
                  /\ result.candidates[1].hasContent
            THEN IF ~result.candidates[1].hasParts THEN Throw(TypeErrorNoParts)
                 ELSE LET textParts ==
                              MapText(Filter(result.candidates[1].parts,
                                             TextBearing(result.candidates[1].parts)))
                      IN Return(Join(textParts, <<"\n">>))
            ELSE Throw(<<"No summary generated">>)

\* GeminiClient.generateSummaryFromBase64, from the response of its fetch on
generateSummaryFromBase64(resp) ==
    IF ~Ok(resp)
    THEN IF resp.body.form # "json"
         THEN Throw(<<"Failed to generate summary: ", StatusStr(resp.status), " ",
                      resp.statusText>>)
         ELSE Throw(ErrorMessageOr(resp.body.json.error, <<"Failed to generate summary">>))
    ELSE IF resp.body.form # "json" THEN Throw(SyntaxErrorMessage(resp.body.form))
    ELSE LET result == resp.body.json
         IN IF result.hasCandidates /\ Len(result.candidates) >= 1
                  /\ result.candidates[1].hasContent
            THEN IF ~result.candidates[1].hasParts THEN Throw(TypeErrorNoParts)
                 ELSE LET textParts ==
                              MapText(Filter(result.candidates[1].parts,
                                             TextBearing(result.candidates[1].parts)))
                      IN Return(Join(textParts, <<"\n">>))
            ELSE Throw(<<"No summary generated">>)

\* ------------------------------------------------------------------ state

VARIABLES
    ui,        \* the UploadUI object and the DOM elements it drives
    storage,   \* localStorage: for each key a string, or null when it has no entry
    runs,      \* the handleSummarize calls that are suspended at an await
    lastRun,   \* the handleSummarize call that ended last, and what it did
    geminiClient, \* PDFSummarizerApp.geminiClient: the API key of the client, or null
    session,   \* one use of a GeminiClient by a caller that awaits each method in turn
    fhCall     \* one call of a FileHandler function: its arguments and its result

Slots == 1..MaxInFlight

IdleRun ==
    [pc |-> "idle", file |-> NoFile, apiKey |-> NullStr, data |-> <<>>,
     sentKey |-> NullStr, trace |-> <<>>]

NoResponse == HttpResponse(0, "", "none", NoJson)

NoRun ==
    [state |-> "None", file |-> NoFile, apiKey |-> NullStr, data |-> <<>>,
     sentKey |-> NullStr, trace |-> <<>>, shown |-> <<>>, failure |-> Return(<<>>),
     response |-> NoResponse]

\* ------------------------------------------------------------------ UploadUI

\* The keys of localStorage: the one the code uses and the one the README names.
StorageKeys == { "gemini_api_key", "geminiApiKey" }

\* localStorage with no entry, and with the credential v left by an earlier session
EmptyStorage == [k \in StorageKeys |-> NullStr]
StorageWith(v) == [EmptyStorage EXCEPT !["gemini_api_key"] = v]

\* loadApiKey reading the key the README names
loadApiKey_ReadmeKey(store) == store["geminiApiKey"]

\* UploadUI.loadApiKey: localStorage.getItem
loadApiKey(store) == store["gemini_api_key"]

\* UploadUI.saveApiKey: localStorage after setItem or removeItem
saveApiKey(store, key) ==
    IF Truthy(key) THEN [store EXCEPT !["gemini_api_key"] = key]
    ELSE [store EXCEPT !["gemini_api_key"] = NullStr]

\* UploadUI.updateUI
updateUI(u) ==
    LET hasFile == ~u.selectedFile.null
        hasApiKey == Truthy(u.apiKey) /\ Len(Trim(u.apiKey.s)) > 0
    IN [u EXCEPT !.fileInfoVisible = hasFile,
                 !.fileNameText = IF hasFile THEN u.selectedFile.name ELSE @,
                 !.btnDisabled = ~(hasFile /\ hasApiKey)]

\* UploadUI.showLoading
showLoading(u) ==
    [u EXCEPT !.loadingVisible = TRUE, !.resultVisible = FALSE,
              !.errorVisible = FALSE, !.btnDisabled = TRUE]

\* hideLoading that leaves the loading section shown
hideLoading_KeepsLoading(u) == updateUI([u EXCEPT !.btnDisabled = FALSE])

\* hideLoading enabling the button without looking at the file and the key
hideLoading_NoUpdate(u) == [u EXCEPT !.loadingVisible = FALSE, !.btnDisabled = FALSE]

\* UploadUI.hideLoading
hideLoading(u) ==
    updateUI([u EXCEPT !.loadingVisible = FALSE, !.btnDisabled = FALSE])

\* UploadUI.showSummary
showSummary(u, summary) ==
    [u EXCEPT !.summaryContent = summary, !.resultVisible = TRUE, !.errorVisible = FALSE]

\* showError leaving the result section as it is
showError_KeepsResult(u, message) ==
    [u EXCEPT !.errorMessage = message, !.errorVisible = TRUE]

\* UploadUI.showError
showError(u, message) ==
    [u EXCEPT !.errorMessage = message, !.errorVisible = TRUE, !.resultVisible = FALSE]

\* handleFileSelect without the check of the type
handleFileSelect_AnyType(u, file) ==
    IF file.null THEN u ELSE updateUI([u EXCEPT !.selectedFile = file])

\* UploadUI.handleFileSelect; `file` is NoFile when the event carries no file
handleFileSelect(u, file) ==
    IF file.null THEN u
    ELSE IF file.type # PDF THEN showError(u, <<"Please select a PDF file">>)
    ELSE updateUI([u EXCEPT !.selectedFile = file])

\* UploadUI.clearFile
clearFile(u) == updateUI([u EXCEPT !.selectedFile = NoFile])

\* The elements of the page as the document declares them, before any script
\* runs: the loading, result and error sections hidden and empty.
InitialDOM ==
    [fileInfoVisible |-> FALSE, fileNameText |-> "", btnDisabled |-> FALSE,
     loadingVisible |-> FALSE, resultVisible |-> FALSE, errorVisible |-> FALSE,
     summaryContent |-> <<>>, errorMessage |-> <<>>, dragover |-> FALSE]

\* UploadUI.constructor, on the storage left by earlier sessions
NewUploadUI(store) ==
    updateUI([selectedFile |-> NoFile, apiKey |-> loadApiKey(store),
              fileInfoVisible |-> InitialDOM.fileInfoVisible,
              fileNameText |-> InitialDOM.fileNameText,
              btnDisabled |-> InitialDOM.btnDisabled,
              loadingVisible |-> InitialDOM.loadingVisible,
              resultVisible |-> InitialDOM.resultVisible,
              errorVisible |-> InitialDOM.errorVisible,
              summaryContent |-> InitialDOM.summaryContent,
              errorMessage |-> InitialDOM.errorMessage,
              dragover |-> InitialDOM.dragover])

\* the 'change' listener of the file input
FileInputChange(file) ==
    /\ ui' = handleFileSelect(ui, file)
    /\ UNCHANGED <<storage, runs, lastRun, geminiClient, session, fhCall>>

\* the 'dragover' listener of the upload area
DragOver ==
    /\ ui' = [ui EXCEPT !.dragover = TRUE]
    /\ UNCHANGED <<storage, runs, lastRun, geminiClient, session, fhCall>>

\* the 'dragleave' listener of the upload area
DragLeave ==
    /\ ui' = [ui EXCEPT !.dragover = FALSE]
    /\ UNCHANGED <<storage, runs, lastRun, geminiClient, session, fhCall>>

\* the 'drop' listener of the upload area
Drop(file) ==
    /\ ui' = handleFileSelect([ui EXCEPT !.dragover = FALSE], file)
    /\ UNCHANGED <<storage, runs, lastRun, geminiClient, session, fhCall>>

\* the 'click' listener of the remove-file button
RemoveFileClick ==
    /\ ui' = clearFile(ui)
    /\ UNCHANGED <<storage, runs, lastRun, geminiClient, session, fhCall>>

\* the 'input' listener of the API-key field
ApiKeyInput(value) ==
    /\ ui' = updateUI([ui EXCEPT !.apiKey = Str(value)])
    /\ storage' = saveApiKey(storage, Str(value))
    /\ UNCHANGED <<runs, lastRun, geminiClient, session, fhCall>>

\* ------------------------------------------------------------------ PDFSummarizerApp

\* btoa of the file's bytes, as FileReader.readAsDataURL computes it
Base64(bytes) ==
    CASE bytes = "%PDF-1" -> "JVBERi0x"
      [] bytes = "%PDF-2" -> "JVBERi0y"
      [] bytes = "hi" -> "aGk="
      [] OTHER -> ""

\* FileReader.result after readAsDataURL
DataURL(file) == <<"data:", file.type, ";base64", ",", Base64(file.bytes)>>

\* GeminiClient.uploadFileBase64, reader.onload: the resolved {name, mimeType, data}
uploadFileBase64(file) ==
    [name |-> file.name, mimeType |-> file.type, data |-> Split(DataURL(file), ",")[2]]

\* The catch block showing the bare message
CatchText_Verbatim(failure) == failure.text

\* `Error: ${error.message || 'An unexpected error occurred'}`
CatchText(failure) ==
    <<"Error: ">> \o (IF failure.hasMessage /\ failure.text # <<>>
                      THEN failure.text
                      ELSE <<"An unexpected error occurred">>)

Ended(state, run, shown, failure, response) ==
    [state |-> state, file |-> run.file, apiKey |-> run.apiKey, data |-> run.data,
     sentKey |-> run.sentKey, trace |-> run.trace, shown |-> shown, failure |-> failure,
     response |-> response]

\* The validation of handleSummarize: the message it shows, <<>> when it passes.
validate(file, apiKey) ==
    IF file.null \/ ~Truthy(apiKey)
    THEN <<"Please select a PDF file and enter your API key">>
    ELSE IF ~isValidPDF(file) THEN <<"Please select a valid PDF file">>
    ELSE IF ~isValidFileSize(file, DefaultMaxSizeMB) THEN <<"File size exceeds 20MB limit">>
    ELSE <<>>

FreeSlot(r) == runs[r].pc = "idle" /\ \A q \in 1..(r - 1) : runs[q].pc # "idle"

\* The 'click' listener of the summarize button, which a disabled button never
\* dispatches: handleSummarize up to its first await.
handleSummarize ==
    /\ ~ui.btnDisabled
    /\ LET file == ui.selectedFile
           apiKey == ui.apiKey
           reason == validate(file, apiKey)
           call == [IdleRun EXCEPT !.file = file, !.apiKey = apiKey]
       IN IF reason # <<>>
          THEN /\ ui' = showError(ui, reason)
               /\ lastRun' = Ended("Failed", [call EXCEPT !.trace = <<"showError">>],
                                   reason, Throw(reason), NoResponse)
               /\ UNCHANGED <<storage, runs, geminiClient, session, fhCall>>
          ELSE \E r \in Slots :
                 /\ FreeSlot(r)
                 /\ ui' = showLoading(ui)
                 /\ geminiClient' = apiKey
                 /\ runs' = [runs EXCEPT ![r] =
                        [call EXCEPT !.pc = "reading",
                                     !.trace = <<"showLoading", "readAsDataURL">>]]
                 /\ UNCHANGED <<storage, lastRun, session, fhCall>>

\* A run that uploads the file before it asks for the summary
ReaderLoad_UploadsFirst(r) ==
    /\ runs[r].pc = "reading"
    /\ runs' = [runs EXCEPT ![r].pc = "fetching",
                            ![r].data = uploadFileBase64(runs[r].file).data,
                            ![r].sentKey = geminiClient,
                            ![r].trace = @ \o <<"fetch files", "fetch generateContent">>]
    /\ UNCHANGED <<ui, storage, lastRun, geminiClient, session, fhCall>>

\* reader.onload of run r: uploadFileBase64 resolves and generateSummaryFromBase64
\* sends its request with the key of the client the app holds now.
ReaderLoad(r) ==
    /\ runs[r].pc = "reading"
    /\ runs' = [runs EXCEPT ![r].pc = "fetching",
                            ![r].data = uploadFileBase64(runs[r].file).data,
                            ![r].sentKey = geminiClient,
                            ![r].trace = Append(@, "fetch generateContent")]
    /\ UNCHANGED <<ui, storage, lastRun, geminiClient, session, fhCall>>

\* A catch block that shows the error and leaves the loading section alone
Catch_NoHideLoading(r, failure, response) ==
    /\ ui' = showError(ui, CatchText(failure))
    /\ lastRun' = Ended("Failed", [runs[r] EXCEPT !.trace = @ \o <<"showError">>],
                        CatchText(failure), failure, response)
    /\ runs' = [runs EXCEPT ![r] = IdleRun]
    /\ UNCHANGED <<storage, geminiClient, session, fhCall>>

\* The end of run r in the catch block of handleSummarize.
Catch(r, failure, response) ==
    /\ ui' = showError(hideLoading(ui), CatchText(failure))
    /\ lastRun' = Ended("Failed",
                        [runs[r] EXCEPT !.trace = @ \o <<"hideLoading", "showError">>],
                        CatchText(failure), failure, response)
    /\ runs' = [runs EXCEPT ![r] = IdleRun]
    /\ UNCHANGED <<storage, geminiClient, session, fhCall>>

\* reader.onerror of run r: uploadFileBase64 rejects with the error event.
ReaderError(r) ==
    /\ runs[r].pc = "reading"
    /\ Catch(r, ThrowEvent, NoResponse)

\* The fetch of run r rejects (no connection).
FetchReject(r) ==
    /\ runs[r].pc = "fetching"
    /\ Catch(r, Throw(<<"Failed to fetch">>), NoResponse)

\* The fetch of run r resolves with resp: the rest of generateSummaryFromBase64
\* and of handleSummarize.
FetchResolve(r, resp) ==
    /\ runs[r].pc = "fetching"
    /\ LET summary == generateSummaryFromBase64(resp)
       IN IF summary.kind = "return"
          THEN /\ ui' = showSummary(hideLoading(ui), summary.text)
               /\ lastRun' = Ended("Done",
                        [runs[r] EXCEPT !.trace = @ \o <<"hideLoading", "showSummary">>],
                        summary.text, summary, resp)
               /\ runs' = [runs EXCEPT ![r] = IdleRun]
               /\ UNCHANGED <<storage, geminiClient, session, fhCall>>
          ELSE Catch(r, summary, resp)

\* The page is loaded again: DOMContentLoaded constructs a new PDFSummarizerApp
\* and with it a new UploadUI; the calls the old page was awaiting are gone.
DOMContentLoaded ==
    /\ ui' = NewUploadUI(storage)
    /\ geminiClient' = NullStr
    /\ runs' = [r \in Slots |-> IdleRun]
    /\ lastRun' = NoRun
    /\ UNCHANGED <<storage, session, fhCall>>

\* The generation responses the runs of the app are answered with.
AppGenResponses ==
    { HttpResponse(200, "OK", "json", GenJson(TRUE, <<Content(ps)>>, NoError)) :
        ps \in { <<>>, <<TextPart(<<"A">>)>>, <<TextPart(<<"B">>)>>,
                 <<TextPart(<<"A">>), TextPart(<<"B">>)>> } }
    \cup { HttpResponse(200, "OK", "json", GenJson(FALSE, <<>>, NoError)),
           HttpResponse(200, "OK", "json", GenJson(TRUE, <<ContentNoParts>>, NoError)),
           HttpResponse(200, "OK", "garbage", NoJson),
           HttpResponse(503, "Service Unavailable", "garbage", NoJson),
           HttpResponse(400, "Bad Request", "json", GenJson(FALSE, <<>>, NoError)) }

\* ------------------------------------------------------------------ GeminiClient: files

PollDelayMs == 5000

\* A value of the state field: a string or undefined.
Undefined == [null |-> TRUE, s |-> ""]
St(x) == [null |-> FALSE, s |-> x]

\* Texts the file-ingestion endpoint answers with.
EmptyText == <<>>
BlankText == <<" ">>
BracesText == <<"{", "}">>
SpacedBracesText == <<"{", " ", "}">>
HtmlText == <<"<", "html", ">">>
TopRecordText == <<"{", "name", ":", "files/", "abc", ",", "state", ":", "PROCESSING", "}">>
WrappedRecordText == <<"{", "file", ":", "{", "name", ":", "abc", "}", "}">>
ErrorText == <<"{", "error", ":", "{", "message", ":", "q", "u", "o", "t", "a", "}", "}">>
BareErrorText == <<"{", "error", ":", "{", "}", "}">>

\* The parsed body of the ingestion endpoint: {name, state}, {file: {name}},
\* {error: {...}} or {}.
UploadJson(shape, name, err) == [shape |-> shape, name |-> name, error |-> err]
EmptyObject == UploadJson("empty", <<>>, NoError)

\* JSON.parse on the texts above; ok is FALSE where it throws a SyntaxError
JSONParse(text) ==
    CASE text = BracesText -> [ok |-> TRUE, json |-> EmptyObject]
      [] text = SpacedBracesText -> [ok |-> TRUE, json |-> EmptyObject]
      [] text = TopRecordText ->
            [ok |-> TRUE, json |-> UploadJson("top", <<"files/", "abc">>, NoError)]
      [] text = WrappedRecordText ->
            [ok |-> TRUE, json |-> UploadJson("wrapped", <<"abc">>, NoError)]
      [] text = ErrorText ->
            [ok |-> TRUE,
             json |-> UploadJson("empty", <<>>,
                        [hasError |-> TRUE, hasMessage |-> TRUE,
                         message |-> <<"q", "u", "o", "t", "a">>])]
      [] text = BareErrorText ->
            [ok |-> TRUE,
             json |-> UploadJson("empty", <<>>,
                        [hasError |-> TRUE, hasMessage |-> FALSE, message |-> <<>>])]
      [] OTHER -> [ok |-> FALSE, json |-> EmptyObject]

UploadResponse(st, txt, text) == [status |-> st, statusText |-> txt, text |-> text]
NoUploadResponse == UploadResponse(0, "", <<>>)

UploadResponses ==
    { UploadResponse(200, "OK", t) :
        t \in { EmptyText, BlankText, BracesText, SpacedBracesText, HtmlText,
                TopRecordText, WrappedRecordText } }
    \cup { UploadResponse(st[1], st[2], t) :
             st \in {<<400, "Bad Request">>, <<503, "Service Unavailable">>},
             t \in { EmptyText, HtmlText, ErrorText, BareErrorText, BracesText } }

\* Results of uploadFile and getFileStatus: a returned object or a thrown Error.
ReturnJson(j) == [kind |-> "return", text |-> <<>>, hasMessage |-> FALSE, json |-> j]
ThrowJson(m, j) == [kind |-> "throw", text |-> m, hasMessage |-> TRUE, json |-> j]

\* uploadFile taking a success body that does not parse for an empty object
uploadFile_AcceptsAnyBody(resp) ==
    IF ~Ok(resp)
    THEN IF ~JSONParse(resp.text).ok
         THEN ThrowJson(<<"Failed to upload file: ", StatusStr(resp.status), " ",
                          resp.statusText>>, EmptyObject)
         ELSE ThrowJson(ErrorMessageOr(JSONParse(resp.text).json.error,
                          <<"Failed to upload file: ", StatusStr(resp.status)>>),
                        EmptyObject)
    ELSE ReturnJson(JSONParse(resp.text).json)

\* GeminiClient.uploadFile, from the response of its fetch on
uploadFile(resp) ==
    LET responseText == resp.text
        parsed == JSONParse(responseText)
    IN IF ~Ok(resp)
       THEN IF ~parsed.ok
            THEN ThrowJson(<<"Failed to upload file: ", StatusStr(resp.status), " ",
                             resp.statusText>>, EmptyObject)
            ELSE ThrowJson(ErrorMessageOr(parsed.json.error,
                             <<"Failed to upload file: ", StatusStr(resp.status)>>),
                           EmptyObject)
       ELSE IF responseText = <<>> \/ Trim(responseText) = <<>> \/ responseText = BracesText
       THEN ThrowJson(<<"File upload returned empty response. Trying alternative method...">>,
                      EmptyObject)
       ELSE IF ~parsed.ok
       THEN ThrowJson(<<"Invalid JSON response: ">> \o responseText, EmptyObject)
       ELSE ReturnJson(parsed.json)

\* The parsed body of the file-status endpoint: `state` and `file.state` may
\* each be there or not.
StatusJson(state, hasFile, fileState, err) ==
    [state |-> state, hasFile |-> hasFile, fileState |-> fileState, error |-> err]
NoStatus == StatusJson(Undefined, FALSE, Undefined, NoError)

States == {"PROCESSING", "ACTIVE", "FAILED", "STATE_UNSPECIFIED"}

StatusJsons ==
    { StatusJson(St(x), FALSE, Undefined, NoError) : x \in States }
    \cup { StatusJson(Undefined, TRUE, St(x), NoError) : x \in States }
    \cup { NoStatus, StatusJson(Undefined, TRUE, Undefined, NoError),
           StatusJson(St(""), TRUE, St("PROCESSING"), NoError) }

StatusResponses ==
    { HttpResponse(200, "OK", "json", j) : j \in StatusJsons }
    \cup { HttpResponse(200, "OK", "garbage", NoStatus),
           HttpResponse(503, "Service Unavailable", "garbage", NoStatus),
           HttpResponse(400, "Bad Request", "json",
                        StatusJson(Undefined, FALSE, Undefined,
                                   [hasError |-> TRUE, hasMessage |-> TRUE,
                                    message |-> <<"q", "u", "o", "t", "a">>])),
           HttpResponse(400, "Bad Request", "json", NoStatus) }

\* getFileStatus: the path it requests
filePath(fileName) ==
    IF fileName # <<>> /\ Head(fileName) = "files/" THEN fileName
    ELSE <<"files/">> \o fileName

\* GeminiClient.getFileStatus, from the response of its fetch on
getFileStatus(resp) ==
    IF ~Ok(resp)
    THEN IF resp.body.form # "json"
         THEN ThrowJson(<<"Failed to get file status: ", StatusStr(resp.status), " ",
                          resp.statusText>>, NoStatus)
         ELSE ThrowJson(ErrorMessageOr(resp.body.json.error, <<"Failed to get file status">>),
                        NoStatus)
    ELSE IF resp.body.form # "json"
    THEN ThrowJson(SyntaxErrorMessage(resp.body.form), NoStatus)
    ELSE ReturnJson(resp.body.json)

\* getState reading the top level only
getState_TopOnly(status) == status.state

\* `status.state || status.file?.state`
getState(status) ==
    IF ~status.state.null /\ status.state.s # "" THEN status.state
    ELSE IF status.hasFile THEN status.fileState
    ELSE Undefined

\* A loop that polls until the state is ACTIVE
waitForFileProcessing_UntilActive(fileStatus) ==
    IF getState(fileStatus) = St("FAILED") THEN "throw"
    ELSE IF getState(fileStatus) = St("ACTIVE") THEN "return"
    ELSE "repoll"

\* A loop without the FAILED check after it
waitForFileProcessing_NoFailedCheck(fileStatus) ==
    IF getState(fileStatus) = St("PROCESSING") THEN "repoll" ELSE "return"

\* A loop that gives up at the second PROCESSING answer
waitForFileProcessing_TwoAttempts(fileStatus) ==
    IF getState(fileStatus) = St("PROCESSING")
    THEN IF Len(session.statuses) >= 1 THEN "throw" ELSE "repoll"
    ELSE IF getState(fileStatus) = St("FAILED") THEN "throw"
    ELSE "return"

\* A loop that takes only ACTIVE for ready
waitForFileProcessing_ActiveOnly(fileStatus) ==
    IF getState(fileStatus) = St("PROCESSING") THEN "repoll"
    ELSE IF getState(fileStatus) = St("ACTIVE") THEN "return"
    ELSE "throw"

\* waitForFileProcessing on the status it has just received: poll again after
\* the delay, throw, or return the status.
waitForFileProcessing(fileStatus) ==
    IF getState(fileStatus) = St("PROCESSING") THEN "repoll"
    ELSE IF getState(fileStatus) = St("FAILED") THEN "throw"
    ELSE "return"

\* ------------------------------------------------------------------ a client session

\* One call of the client by a caller that takes the reference strategy
\* (uploadFile, waitForFileProcessing, generateSummary) or the inline strategy
\* (uploadFileBase64, generateSummaryFromBase64), awaiting each method in turn.

LogEntry(op, arg, ms) == [op |-> op, arg |-> arg, ms |-> ms]

IdleSession ==
    [pc |-> "idle", strategy |-> "", file |-> NoFile, hasCallback |-> FALSE,
     upload |-> EmptyObject, fileName |-> <<>>, statuses |-> <<>>, callbacks |-> <<>>,
     data |-> <<>>, log |-> <<>>,
     outcome |-> Return(<<>>), uploadResp |-> NoUploadResponse, genResp |-> NoResponse,
     record |-> NoStatus]

appVars == <<ui, storage, runs, lastRun, geminiClient, fhCall>>

Threw(s, failure) == [s EXCEPT !.pc = "threw", !.outcome = failure]

\* The caller picks a strategy and calls its first method.
ClientStart(strategy, file, cb) ==
    /\ session.pc = "idle"
    /\ session' =
         [IdleSession EXCEPT
            !.pc = IF strategy = "A" THEN "upload" ELSE "reading",
            !.strategy = strategy, !.file = file, !.hasCallback = cb,
            !.log = IF strategy = "A" THEN <<LogEntry("POST files", <<>>, 0)>>
                    ELSE <<LogEntry("readAsDataURL", <<>>, 0)>>]
    /\ UNCHANGED appVars

\* The fetch of uploadFile resolves: the rest of uploadFile.
UploadResolve(resp) ==
    /\ session.pc = "upload"
    /\ LET up == uploadFile(resp)
           s == [session EXCEPT !.uploadResp = resp]
       IN session' =
            IF up.kind = "throw" THEN Threw(s, Throw(up.text))
            ELSE [s EXCEPT !.pc = "uploaded", !.upload = up.json]
    /\ UNCHANGED appVars

\* The caller passes the name of the upload record to waitForFileProcessing,
\* whose first statement is a getFileStatus.
CallWaitForFileProcessing ==
    /\ session.pc = "uploaded"
    /\ session' =
         IF session.upload.shape = "empty"
         THEN \* no name in the record: `fileName.startsWith` throws
              Threw(session,
                    Throw(<<"Cannot read properties of undefined (reading 'startsWith')">>))
         ELSE [session EXCEPT
                 !.pc = "status", !.fileName = session.upload.name,
                 !.log = Append(@, LogEntry("GET", filePath(session.upload.name), 0))]
    /\ UNCHANGED appVars

\* The fetch of uploadFile rejects.
UploadReject ==
    /\ session.pc = "upload"
    /\ session' = Threw(session, Throw(<<"Failed to fetch">>))
    /\ UNCHANGED appVars

\* The fetch of getFileStatus resolves inside waitForFileProcessing: one turn
\* of its loop, or its end.
StatusResolve(resp) ==
    /\ session.pc = "status"
    /\ LET got == getFileStatus(resp)
           s == [session EXCEPT !.statuses = Append(@, resp)]
       IN session' =
            IF got.kind = "throw" THEN Threw(s, Throw(got.text))
            ELSE CASE waitForFileProcessing(got.json) = "repoll" ->
                        [s EXCEPT !.pc = "sleep",
                                  !.callbacks = IF s.hasCallback
                                                THEN Append(@, getState(got.json).s)
                                                ELSE @,
                                  !.log = Append(@, LogEntry("setTimeout", <<>>, PollDelayMs))]
                   [] waitForFileProcessing(got.json) = "throw" ->
                        Threw(s, Throw(<<"File processing failed">>))
                   [] OTHER -> [s EXCEPT !.pc = "waited", !.record = got.json]
    /\ UNCHANGED appVars

\* The caller passes the uri of the processed file to generateSummary, which
\* sends its request.
CallGenerateSummary ==
    /\ session.pc = "waited"
    /\ session' = [session EXCEPT
                     !.pc = "generate",
                     !.log = Append(@, LogEntry("POST generateContent", <<>>, 0))]
    /\ UNCHANGED appVars

\* The fetch of getFileStatus rejects.
StatusReject ==
    /\ session.pc = "status"
    /\ session' = Threw(session, Throw(<<"Failed to fetch">>))
    /\ UNCHANGED appVars

\* The timer of waitForFileProcessing fires: the next getFileStatus.
PollTimer ==
    /\ session.pc = "sleep"
    /\ Len(session.statuses) < MaxPolls
    /\ session' = [session EXCEPT
                     !.pc = "status",
                     !.log = Append(@, LogEntry("GET", filePath(session.fileName), 0))]
    /\ UNCHANGED appVars

\* reader.onload of uploadFileBase64
ClientReaderLoad ==
    /\ session.pc = "reading"
    /\ session' = [session EXCEPT !.pc = "encoded",
                                  !.data = uploadFileBase64(session.file).data]
    /\ UNCHANGED appVars

\* The caller passes the encoded file to generateSummaryFromBase64, which
\* sends its request (handleSummarize is such a caller).
CallGenerateSummaryFromBase64 ==
    /\ session.pc = "encoded"
    /\ session' = [session EXCEPT
                     !.pc = "generate",
                     !.log = Append(@, LogEntry("POST generateContent", session.data, 0))]
    /\ UNCHANGED appVars

\* reader.onerror of uploadFileBase64
ClientReaderError ==
    /\ session.pc = "reading"
    /\ session' = Threw(session, ThrowEvent)
    /\ UNCHANGED appVars

\* The fetch of generateSummary or generateSummaryFromBase64 resolves.
GenerateResolve(resp) ==
    /\ session.pc = "generate"
    /\ LET summary == IF session.strategy = "A" THEN generateSummary(resp)
                      ELSE generateSummaryFromBase64(resp)
       IN session' = [session EXCEPT
                        !.pc = IF summary.kind = "return" THEN "returned" ELSE "threw",
                        !.outcome = summary, !.genResp = resp]
    /\ UNCHANGED appVars

\* The fetch of generateSummary or generateSummaryFromBase64 rejects.
GenerateReject ==
    /\ session.pc = "generate"
    /\ session' = Threw(session, Throw(<<"Failed to fetch">>))
    /\ UNCHANGED appVars

\* ------------------------------------------------------------------ specifications

Init ==
    /\ storage \in {EmptyStorage, StorageWith(Str(<<"k">>))}
    /\ ui = NewUploadUI(storage)
    /\ geminiClient = NullStr
    /\ runs = [r \in Slots |-> IdleRun]
    /\ lastRun = NoRun
    /\ session = IdleSession
    /\ fhCall = NoCall

Next ==
    \/ \E f \in Files \cup {NoFile} : FileInputChange(f)
    \/ DragOver
    \/ DragLeave
    \/ \E f \in Files \cup {NoFile} : Drop(f)
    \/ RemoveFileClick
    \/ \E v \in KeyInputs : ApiKeyInput(v)
    \/ handleSummarize
    \/ \E r \in Slots : ReaderLoad(r)
    \/ \E r \in Slots : ReaderError(r)
    \/ \E r \in Slots : FetchReject(r)
    \/ \E r \in Slots, resp \in AppGenResponses : FetchResolve(r, resp)
    \/ DOMContentLoaded

vars == <<ui, storage, runs, lastRun, geminiClient, session, fhCall>>

\* The application: the page, its listeners and the runs of handleSummarize.
Spec == Init /\ [][Next]_vars

\* The application when every file read and every request it starts ends, with
\* a result or with a failure.
SpecLive ==
    /\ Spec
    /\ \A r \in Slots :
          WF_vars(\/ ReaderLoad(r) \/ ReaderError(r)
                  \/ FetchReject(r) \/ \E resp \in AppGenResponses : FetchResolve(r, resp))

InitClient ==
    /\ storage = EmptyStorage
    /\ ui = NewUploadUI(storage)
    /\ geminiClient = NullStr
    /\ runs = [r \in Slots |-> IdleRun]
    /\ lastRun = NoRun
    /\ session = IdleSession
    /\ fhCall = NoCall

NextClient ==
    \/ \E st \in {"A", "B"}, f \in Files, cb \in BOOLEAN : ClientStart(st, f, cb)
    \/ \E resp \in UploadResponses : UploadResolve(resp)
    \/ UploadReject
    \/ CallWaitForFileProcessing
    \/ \E resp \in StatusResponses : StatusResolve(resp)
    \/ StatusReject
    \/ PollTimer
    \/ CallGenerateSummary
    \/ ClientReaderLoad
    \/ ClientReaderError
    \/ CallGenerateSummaryFromBase64
    \/ \E resp \in GenResponses : GenerateResolve(resp)
    \/ GenerateReject

\* The client alone, called through either strategy.
SpecClient == InitClient /\ [][NextClient]_vars

\* ------------------------------------------------------------------ FileHandler alone

\* Declared types and byte lengths of the files the functions are called on.
FileTypes ==
    { "application/pdf", "application/PDF", "application/pdf;q=1", "text/plain",
      "application/x-pdf", "" }
FileSizes ==
    { 0, 1, MiB - 1, MiB, MiB + 1, 2 * MiB, 20 * MiB - 1, 20 * MiB, 20 * MiB + 1,
      21 * MiB, 21 * MiB + 1 }
TestFiles == { File("f", t, sz, "") : t \in FileTypes, sz \in FileSizes }
MaxSizeArgs == { NoArg, Arg(0), Arg(1), Arg(2), Arg(20), Arg(21) }

\* FileHandler.isValidFileSize(file, maxSizeMB) is called
CallIsValidFileSize(file, arg) ==
    /\ fhCall' = [fn |-> "isValidFileSize", file |-> file, maxSizeMB |-> arg,
                threw |-> file.null,
                result |-> IF file.null THEN FALSE
                           ELSE isValidFileSize(file, DefaultArg(arg))]
    /\ UNCHANGED <<ui, storage, runs, lastRun, geminiClient, session>>

\* FileHandler.isValidPDF(file) is called
CallIsValidPDF(file) ==
    /\ fhCall' = [fn |-> "isValidPDF", file |-> file, maxSizeMB |-> NoArg,
                threw |-> FALSE, result |-> isValidPDF(file)]
    /\ UNCHANGED <<ui, storage, runs, lastRun, geminiClient, session>>

NextFileHandler ==
    \/ \E f \in TestFiles \cup {NoFile}, a \in MaxSizeArgs : CallIsValidFileSize(f, a)
    \/ \E f \in TestFiles \cup {NoFile} : CallIsValidPDF(f)

\* The validation functions alone, on every file and limit above.
SpecFileHandler == InitClient /\ [][NextFileHandler]_vars

\* ------------------------------------------------------------------ claims: the application

InFlight == { r \in Slots : runs[r].pc # "idle" }

Count(seq, x) == Cardinality({ i \in 1..Len(seq) : seq[i] = x })

\* C1: no two summarize runs overlap: while a run is between showLoading and
\* hideLoading the summarize button stays disabled, whatever the user does
\* meanwhile, so that at most one handleSummarize is in flight.
C1_NoOverlappingRuns == Cardinality(InFlight) <= 1

\* The guard C1 names: the button is disabled whenever a run is in flight.
TriggerDisabledInFlight == InFlight # {} => ui.btnDisabled

\* The inputs handleSummarize must refuse.
Refused(file, apiKey) ==
    \/ file.null
    \/ apiKey.null \/ apiKey.s = <<>>
    \/ file.type # "application/pdf"
    \/ file.size > 20 * MiB

\* C2: handleSummarize fails fast: with no file, no credential, a type that
\* is not PDF or a size above 20 MiB, the call shows an error and ends; it
\* calls neither showLoading nor the file reader nor the network, and no such
\* call is ever left awaiting.
C2_FailsFast ==
    /\ \A r \in InFlight : ~Refused(runs[r].file, runs[r].apiKey)
    /\ (lastRun.state # "None" /\ Refused(lastRun.file, lastRun.apiKey)) =>
          /\ lastRun.state = "Failed"
          /\ lastRun.trace = <<"showError">>
          /\ lastRun.shown # <<>>

C2_Witness ==
    /\ lastRun.state = "Failed"
    /\ ~lastRun.file.null /\ lastRun.file.type = PDF /\ lastRun.file.size > 20 * MiB
    /\ lastRun.trace = <<"showError">>
    /\ ui.errorVisible /\ ui.errorMessage = <<"File size exceeds 20MB limit">>

\* C7 as stated: on any failure of a run the text given to showError is the
\* failure's message itself, nothing added or removed.
C7_Verbatim ==
    (lastRun.state = "Failed" /\ lastRun.failure.hasMessage) =>
        lastRun.shown = lastRun.failure.text

\* C7 as amended: a failure caught after validation is shown as "Error: "
\* followed by its message, or by 'An unexpected error occurred' when it has
\* none; a validation failure is shown as its fixed text.  In both cases the
\* run ends with that showError, and it has sent at most one request.
C7_PrefixedMessage ==
    lastRun.state = "Failed" =>
        /\ IF Count(lastRun.trace, "showLoading") = 0
           THEN /\ Refused(lastRun.file, lastRun.apiKey)
                /\ lastRun.shown = lastRun.failure.text
                /\ lastRun.shown \in
                     { <<"Please select a PDF file and enter your API key">>,
                       <<"Please select a valid PDF file">>,
                       <<"File size exceeds 20MB limit">> }
           ELSE lastRun.shown =
                    <<"Error: ">> \o (IF lastRun.failure.hasMessage
                                      THEN lastRun.failure.text
                                      ELSE <<"An unexpected error occurred">>)
        /\ lastRun.trace[Len(lastRun.trace)] = "showError"
        /\ Count(lastRun.trace, "showError") = 1
        /\ Count(lastRun.trace, "showSummary") = 0
        /\ Count(lastRun.trace, "fetch generateContent") <= 1
        /\ Count(lastRun.trace, "readAsDataURL") <= 1

C7_Witness ==
    /\ lastRun.state = "Failed"
    /\ lastRun.failure = Throw(<<"No summary generated">>)
    /\ lastRun.shown = <<"Error: ", "No summary generated">>
    /\ ui.errorMessage = <<"Error: ", "No summary generated">>
    /\ Count(lastRun.trace, "fetch generateContent") = 1

\* A success response whose only candidate has the single text part t.
SingleTextPart(resp, t) ==
    /\ resp.status = 200 /\ resp.body.form = "json"
    /\ resp.body.json.hasCandidates
    /\ resp.body.json.candidates = <<Content(<<TextPart(t)>>)>>

\* C10: end to end with the inline strategy: when the generation request of
\* a run (a selected PDF within the limit, a credential present) is answered
\* with one text part T, the run ends in Done, loading is hidden, showSummary
\* has been called once with exactly T and the run has called no showError.
C10_InlineEndToEnd ==
    [][\A r \in Slots : \A t \in {<<"A">>, <<"B">>} :
         (runs[r].pc = "fetching" /\ runs'[r].pc = "idle"
            /\ SingleTextPart(lastRun'.response, t)) =>
              /\ lastRun'.state = "Done"
              /\ ~ui'.loadingVisible
              /\ ui'.summaryContent = t /\ ui'.resultVisible /\ ~ui'.errorVisible
              /\ lastRun'.shown = t
              /\ lastRun'.trace = <<"showLoading", "readAsDataURL", "fetch generateContent",
                                    "hideLoading", "showSummary">>
              /\ lastRun'.file = runs[r].file /\ ~Refused(runs[r].file, runs[r].apiKey)
      ]_vars

C10_Witness ==
    /\ lastRun.state = "Done"
    /\ SingleTextPart(lastRun.response, <<"A">>)
    /\ lastRun.file.size = 2 * MiB /\ lastRun.file.type = PDF
    /\ lastRun.shown = <<"A">>
    /\ ui.summaryContent = <<"A">> /\ ui.resultVisible /\ ~ui.loadingVisible

\* ------------------------------------------------------------------ claims: the client

\* The state a status response reports, "" when it reports none.
ReportedState(resp) ==
    IF resp.status # 200 \/ resp.body.form # "json" THEN ""
    ELSE IF ~resp.body.json.state.null /\ resp.body.json.state.s # ""
    THEN resp.body.json.state.s
    ELSE IF resp.body.json.hasFile /\ ~resp.body.json.fileState.null
    THEN resp.body.json.fileState.s
    ELSE ""

\* The requests and delays of a wait that re-polls n times.
RECURSIVE PollLog(_)
PollLog(n) ==
    IF n = 0 THEN <<LogEntry("GET", <<"files/", "abc">>, 0)>>
    ELSE PollLog(n - 1) \o <<LogEntry("setTimeout", <<>>, 5000),
                             LogEntry("GET", <<"files/", "abc">>, 0)>>

Ops(log) == [i \in 1..Len(log) |-> log[i].op]

\* C3: when the status responses are n times PROCESSING and then one other
\* response, waitForFileProcessing has sent n + 1 status requests, each but
\* the first after the response before it and a delay of 5000 ms, and has
\* called the progress callback n times, each time with "PROCESSING".
C3_RepollsAndCallbacks ==
    LET k == Len(session.statuses)
        n == k - 1
    IN (k >= 1 /\ ReportedState(session.statuses[k]) # "PROCESSING") =>
          /\ \A i \in 1..n : ReportedState(session.statuses[i]) = "PROCESSING"
          /\ Len(session.log) >= 2 * n + 2
          /\ SubSeq(session.log, 2, 2 * n + 2) = PollLog(n)
          /\ Count(Ops(session.log), "GET") = n + 1
          /\ Count(Ops(session.log), "setTimeout") = n
          /\ session.callbacks =
               IF session.hasCallback THEN [i \in 1..n |-> "PROCESSING"] ELSE <<>>

C3_Witness ==
    /\ Len(session.statuses) = 3
    /\ ReportedState(session.statuses[1]) = "PROCESSING"
    /\ ReportedState(session.statuses[2]) = "PROCESSING"
    /\ ReportedState(session.statuses[3]) = "ACTIVE"
    /\ session.hasCallback /\ session.callbacks = <<"PROCESSING", "PROCESSING">>
    /\ Count(Ops(session.log), "setTimeout") = 2
    /\ session.pc = "waited"

\* C4: when the last status response reports FAILED the client throws 'File
\* processing failed' and that session sends no generation request; with the
\* reference strategy a generation request is sent only after a status
\* response that reports neither PROCESSING nor FAILED, and after nothing else.
C4_FailedNeverGenerates ==
    LET k == Len(session.statuses)
        sent == Count(Ops(session.log), "POST generateContent")
    IN /\ (k >= 1 /\ ReportedState(session.statuses[k]) = "FAILED") =>
            /\ session.pc = "threw"
            /\ session.outcome = Throw(<<"File processing failed">>)
            /\ sent = 0
       /\ (session.strategy = "A" /\ sent > 0) =>
            /\ sent = 1
            /\ session.log[Len(session.log)].op = "POST generateContent"
            /\ k >= 1
            /\ session.statuses[k].status = 200 /\ session.statuses[k].body.form = "json"
            /\ ReportedState(session.statuses[k]) \notin {"PROCESSING", "FAILED"}

C4_Witness ==
    /\ Len(session.statuses) = 2
    /\ ReportedState(session.statuses[1]) = "PROCESSING"
    /\ ReportedState(session.statuses[2]) = "FAILED"
    /\ session.pc = "threw"
    /\ session.outcome = Throw(<<"File processing failed">>)

\* A body that is empty, blank, or not JSON.
Malformed(text) == text = <<>> \/ (\A i \in 1..Len(text) : text[i] = " ") \/ ~JSONParse(text).ok

\* C5: when the ingestion endpoint answers 2xx with an empty or unparsable
\* body, uploadFile throws an error whose message no non-2xx answer produces,
\* and the session sends no status request.
C5_MalformedUpload ==
    (session.uploadResp.status = 200 /\ Malformed(session.uploadResp.text)) =>
        /\ session.pc = "threw"
        /\ session.outcome.hasMessage
        /\ \/ session.outcome.text =
                <<"File upload returned empty response. Trying alternative method...">>
           \/ session.outcome.text = <<"Invalid JSON response: ">> \o session.uploadResp.text
        /\ \A r \in UploadResponses :
              r.status \notin 200..299 => uploadFile(r).text # session.outcome.text
        /\ Count(Ops(session.log), "GET") = 0
        /\ session.statuses = <<>>

C5_Witness ==
    /\ session.uploadResp = UploadResponse(200, "OK", <<>>)
    /\ session.pc = "threw"
    /\ session.outcome.text =
         <<"File upload returned empty response. Trying alternative method...">>
    /\ Ops(session.log) = <<"POST files">>

\* The first candidate of a 2xx generation response has content.
FirstHasContent(resp) ==
    /\ resp.status = 200 /\ resp.body.form = "json"
    /\ resp.body.json.hasCandidates
    /\ resp.body.json.candidates # <<>>
    /\ resp.body.json.candidates[1].hasContent

HasText(part) == part.hasText /\ part.text # <<>>

\* The parts of the first candidate, none when it has no parts list.
FirstParts(resp) ==
    IF resp.body.json.candidates[1].hasParts
    THEN resp.body.json.candidates[1].parts ELSE <<>>

\* C6: a 2xx generation response whose first candidate has content but no
\* part with non-empty text (or no parts at all) makes the client throw 'No
\* summary generated'; it returns no summary. Both strategies.
C6_NoSummaryProduced ==
    (FirstHasContent(session.genResp)
       /\ \A i \in 1..Len(FirstParts(session.genResp)) :
             ~HasText(FirstParts(session.genResp)[i])) =>
        /\ session.pc = "threw"
        /\ session.outcome = Throw(<<"No summary generated">>)

\* The texts of the parts that bear text, in order, joined by newlines.
RECURSIVE ExpectedSummary(_)
ExpectedSummary(parts) ==
    IF parts = <<>> THEN <<>>
    ELSE IF ~HasText(Head(parts)) THEN ExpectedSummary(Tail(parts))
    ELSE IF \E i \in 1..Len(Tail(parts)) : HasText(Tail(parts)[i])
    THEN Head(parts).text \o <<"\n">> \o ExpectedSummary(Tail(parts))
    ELSE Head(parts).text

C9_NoCandidates ==
    (session.genResp.status = 200 /\ session.genResp.body.form = "json"
       /\ ~FirstHasContent(session.genResp)) =>
        /\ session.pc = "threw"
        /\ session.outcome = Throw(<<"No summary generated">>)

C9_Witness ==
    /\ session.strategy = "A"
    /\ session.genResp.status = 200 /\ session.genResp.body.form = "json"
    /\ session.genResp.body.json.hasCandidates
    /\ session.genResp.body.json.candidates = <<NoContent>>
    /\ session.pc = "threw"
    /\ session.outcome.text = <<"No summary generated">>

\* ------------------------------------------------------------------ claims: failures and requests

\* file selected and key non-blank after trimming
Ready(u) == ~u.selectedFile.null /\ ~u.apiKey.null /\ Len(Trim(u.apiKey.s)) > 0

\* A step in which a call of handleSummarize ends in the catch block.
CaughtStep ==
    \E r \in Slots :
       \/ ReaderError(r)
       \/ FetchReject(r)
       \/ \E resp \in AppGenResponses :
             FetchResolve(r, resp) /\ generateSummaryFromBase64(resp).kind = "throw"

\* A step in which a call of handleSummarize ends at its validation.
RefusedStep == handleSummarize /\ validate(ui.selectedFile, ui.apiKey) # <<>>

\* C11: after any failed run, refused at validation or caught later, the
\* loading section is hidden and, when a file is selected and the key is not
\* blank, the summarize button is enabled, so that a new run can be started.
C11_UsableAfterFailure ==
    [][(CaughtStep \/ RefusedStep) =>
          /\ ~ui'.loadingVisible
          /\ Ready(ui') => ~ui'.btnDisabled
      ]_vars

\* The part of C11 the catch block keeps: a caught failure hides the loading
\* section and leaves the button enabled exactly when the page is ready.
CaughtFailureRestores ==
    [][CaughtStep =>
          /\ ~ui'.loadingVisible
          /\ ui'.btnDisabled = ~Ready(ui')
          /\ ui'.errorVisible
      ]_vars

\* The message a structured error body carries, <<>> when it carries none.
ServiceMessage(err) == IF err.hasError /\ err.hasMessage THEN err.message ELSE <<>>

\* What a non-success answer must make the client throw: the service's message
\* when the body carries one, else a message that holds the status code.
TransportError(outcome, status, parsable, err) ==
    /\ session.pc = "threw"
    /\ outcome.kind = "throw" /\ outcome.hasMessage
    /\ IF parsable /\ ServiceMessage(err) # <<>>
       THEN outcome.text = ServiceMessage(err)
       ELSE \E i \in 1..Len(outcome.text) : outcome.text[i] = StatusStr(status)

NonSuccess(status) == status # 0 /\ status \notin 200..299

\* C12: every non-success answer of the ingestion, status and generation
\* endpoints makes the client throw an error whose message is the service's
\* structured message when the body carries one and else a generic message
\* holding the status code, also when the body is not JSON.
C12_TransportErrors ==
    LET k == Len(session.statuses)
    IN /\ NonSuccess(session.uploadResp.status) =>
             TransportError(session.outcome, session.uploadResp.status,
                            JSONParse(session.uploadResp.text).ok,
                            JSONParse(session.uploadResp.text).json.error)
       /\ (k >= 1 /\ NonSuccess(session.statuses[k].status)) =>
             TransportError(session.outcome, session.statuses[k].status,
                            session.statuses[k].body.form = "json",
                            session.statuses[k].body.json.error)
       /\ NonSuccess(session.genResp.status) =>
             TransportError(session.outcome, session.genResp.status,
                            session.genResp.body.form = "json",
                            session.genResp.body.json.error)

\* The part of C12 the ingestion endpoint keeps.
UploadTransportErrors ==
    NonSuccess(session.uploadResp.status) =>
        TransportError(session.outcome, session.uploadResp.status,
                       JSONParse(session.uploadResp.text).ok,
                       JSONParse(session.uploadResp.text).json.error)

\* ------------------------------------------------------------------ claims: FileHandler

\* C13: isValidFileSize(file, maxSizeMB) is true exactly when file.size is at
\* most maxSizeMB * 2^20, where maxSizeMB is 20 when the caller leaves it out:
\* false for every size above that limit, true for the size equal to it.
C13_SizeLimitInclusive ==
    (fhCall.fn = "isValidFileSize" /\ ~fhCall.file.null) =>
        LET limit == (IF fhCall.maxSizeMB.undefined THEN 20 ELSE fhCall.maxSizeMB.n) * 1048576
        IN /\ ~fhCall.threw
           /\ fhCall.result = (fhCall.file.size <= limit)
           /\ fhCall.file.size > limit => fhCall.result = FALSE
           /\ fhCall.file.size = limit => fhCall.result = TRUE

C13_Witness ==
    /\ fhCall.fn = "isValidFileSize"
    /\ fhCall.maxSizeMB.undefined
    /\ fhCall.file.size = 20971520
    /\ fhCall.result = TRUE

\* C16: isValidPDF is false for every file whose declared type is not exactly
\* 'application/pdf' and true for every file whose declared type is.
C16_PdfTypeOnly ==
    (fhCall.fn = "isValidPDF" /\ ~fhCall.file.null) =>
        /\ fhCall.file.type # "application/pdf" => fhCall.result = FALSE
        /\ fhCall.result = (fhCall.file.type = "application/pdf")

C16_Witness ==
    /\ fhCall.fn = "isValidPDF"
    /\ fhCall.file.type = "application/PDF"
    /\ fhCall.result = FALSE

\* ------------------------------------------------------------------ claims: the inline run

\* The trace entries that are network requests.
Requests(trace) == { i \in 1..Len(trace) : trace[i] \notin
                       {"showLoading", "readAsDataURL", "hideLoading", "showSummary",
                        "showError"} }

\* What a call has sent when its file is encoded (sent is TRUE) or not yet.
OneGenerationRequest(trace, data, file, sent) ==
    IF sent
    THEN /\ data = (IF file.bytes = "%PDF-1" THEN <<"JVBERi0x">> ELSE <<"JVBERi0y">>)
         /\ \E i \in 1..Len(trace) :
               /\ Requests(trace) = {i}
               /\ trace[i] = "fetch generateContent"
               /\ \E j \in 1..(i - 1) : trace[j] = "readAsDataURL"
    ELSE data = <<>> /\ Requests(trace) = {}

\* C14: a run of the inline strategy sends one network request, the
\* generation request, and sends it after the file is encoded in base64 and
\* not before; it never sends a request to the ingestion or status endpoint.
\* A run whose file cannot be read ends without any request.
C14_InlineSingleRequest ==
    /\ \A r \in InFlight :
          OneGenerationRequest(runs[r].trace, runs[r].data, runs[r].file,
                               runs[r].pc = "fetching")
    /\ (lastRun.state # "None" /\ Count(lastRun.trace, "showLoading") > 0) =>
          OneGenerationRequest(lastRun.trace, lastRun.data, lastRun.file,
                               lastRun.failure # ThrowEvent)
    /\ lastRun.state = "Done" => Count(lastRun.trace, "fetch generateContent") = 1

C14_Witness ==
    /\ lastRun.state = "Done"
    /\ lastRun.data = <<"JVBERi0x">>
    /\ lastRun.trace = <<"showLoading", "readAsDataURL", "fetch generateContent",
                         "hideLoading", "showSummary">>

\* ------------------------------------------------------------------ claims: the stored credential

StorageFollowsField ==
    storage["gemini_api_key"] =
        (IF ~ui.apiKey.null /\ ui.apiKey.s # <<>> THEN ui.apiKey ELSE [null |-> TRUE, s |-> <<>>])

RunCourse(trace, state) ==
    CASE state = "reading" -> trace = <<"showLoading", "readAsDataURL">>
      [] state = "fetching" ->
            trace = <<"showLoading", "readAsDataURL", "fetch generateContent">>
      [] state = "Done" ->
            trace = <<"showLoading", "readAsDataURL", "fetch generateContent",
                      "hideLoading", "showSummary">>
      [] state = "Failed" ->
            \/ trace = <<"showLoading", "readAsDataURL", "hideLoading", "showError">>
            \/ trace = <<"showLoading", "readAsDataURL", "fetch generateContent",
                         "hideLoading", "showError">>
      [] OTHER -> FALSE

C17_Sequence ==
    /\ \A r \in InFlight : RunCourse(runs[r].trace, runs[r].pc)
    /\ (lastRun.state # "None" /\ ~Refused(lastRun.file, lastRun.apiKey)) =>
          RunCourse(lastRun.trace, lastRun.state)

\* C17: a run that passed validation calls showLoading, then reads the file,
\* then sends the request, one after the other, then calls hideLoading once
\* and after it either showSummary (Done) or showError (Failed), once; and
\* when every file read and request ends, every such run ends (on this page:
\* a page load ends the runs of the page before).
C17_RunsToDoneOrFailed ==
    /\ []C17_Sequence
    \* no run stays in flight for ever
    /\ \A r \in Slots : []<>(runs[r].pc = "idle")

C17_Witness ==
    /\ lastRun.state = "Failed"
    /\ ~Refused(lastRun.file, lastRun.apiKey)
    /\ lastRun.trace = <<"showLoading", "readAsDataURL", "fetch generateContent",
                         "hideLoading", "showError">>
    /\ \E r \in Slots : runs[r].pc = "fetching"

\* ------------------------------------------------------------------ claims: the polling loop

\* The states the status responses reported, in order.
Reported == [i \in 1..Len(session.statuses) |-> ReportedState(session.statuses[i])]

\* A 2xx JSON status response that carries its state in one shape only:
\* {state} or {file: {state}}.
OneShape(resp) ==
    /\ resp.status = 200 /\ resp.body.form = "json"
    /\ ~(resp.body.json.hasFile /\ ~resp.body.json.state.null)

\* How far waitForFileProcessing has come: "none" before its first response,
\* "polling", "threw" or "returned".
WaitOutcome ==
    IF session.strategy # "A" \/ Count(Ops(session.log), "GET") = 0 THEN "none"
    ELSE IF session.pc \in {"status", "sleep"} THEN "polling"
    ELSE IF session.pc = "threw" /\ Count(Ops(session.log), "POST generateContent") = 0
    THEN "threw"
    ELSE "returned"

\* C18: the outcome of waitForFileProcessing depends on the states the
\* responses report and not on the shape, {state} or {file: {state}}, that
\* each response has: the number of re-polls, the arguments of the callback,
\* and whether it polls on, throws 'File processing failed' or returns the
\* last record are those the sequence of states alone determines (as long as
\* no status request fails).
C18_ShapeIndependent ==
    LET k == Len(session.statuses)
        processing == Count(Reported, "PROCESSING")
        answered == session.pc = "status" \/ Count(Ops(session.log), "GET") = k
    IN (k >= 1 /\ answered /\ \A i \in 1..k : OneShape(session.statuses[i])) =>
          /\ \A i \in 1..(k - 1) : Reported[i] = "PROCESSING"
          /\ Count(Ops(session.log), "setTimeout") = processing
          /\ session.callbacks =
               (IF session.hasCallback THEN [i \in 1..processing |-> "PROCESSING"] ELSE <<>>)
          /\ WaitOutcome =
               (CASE Reported[k] = "PROCESSING" -> "polling"
                  [] Reported[k] = "FAILED" -> "threw"
                  [] OTHER -> "returned")
          /\ Reported[k] = "FAILED" => session.outcome = Throw(<<"File processing failed">>)
          /\ WaitOutcome = "returned" => session.record = session.statuses[k].body.json

\* a wait over responses of both shapes
C18_Witness ==
    /\ Len(session.statuses) = 3
    /\ session.statuses[1].body.json = StatusJson(St("PROCESSING"), FALSE, Undefined, NoError)
    /\ session.statuses[2].body.json = StatusJson(Undefined, TRUE, St("PROCESSING"), NoError)
    /\ session.statuses[3].body.json = StatusJson(Undefined, TRUE, St("ACTIVE"), NoError)
    /\ session.statuses[3].status = 200 /\ session.statuses[3].body.form = "json"
    /\ session.hasCallback /\ session.callbacks = <<"PROCESSING", "PROCESSING">>
    /\ WaitOutcome = "returned"

\* C19: waitForFileProcessing has no bound on its attempts: it has ended
\* exactly when a status response reported something other than PROCESSING or
\* a status request failed; while every response so far reported PROCESSING it
\* has neither returned nor thrown, and after each such response it waits
\* 5000 ms and polls again.
C19_PollsWhileProcessing ==
    LET k == Len(session.statuses)
        gets == Count(Ops(session.log), "GET")
    IN /\ (k >= 1 /\ \A i \in 1..k : Reported[i] = "PROCESSING") =>
             \/ WaitOutcome = "polling"
             \/ WaitOutcome = "threw" /\ gets = k + 1   \* the next request failed
       /\ WaitOutcome \in {"threw", "returned"} =>
             \/ k >= 1 /\ k = gets /\ Reported[k] # "PROCESSING"
             \/ k = gets - 1 /\ session.outcome = Throw(<<"Failed to fetch">>)
       /\ (WaitOutcome # "none" /\ k >= 1 /\ k = gets /\ Reported[k] # "PROCESSING") =>
             WaitOutcome \in {"threw", "returned"}
       /\ session.pc = "sleep" =>
             /\ Reported[k] = "PROCESSING"
             /\ session.log[Len(session.log)] = [op |-> "setTimeout", arg |-> <<>>, ms |-> 5000]
             /\ k < MaxPolls => ENABLED PollTimer

\* the loop still polling after as many PROCESSING answers as the model follows
C19_Witness ==
    /\ Len(session.statuses) = MaxPolls
    /\ \A i \in 1..MaxPolls : Reported[i] = "PROCESSING"
    /\ session.pc = "sleep"
    /\ Count(Ops(session.log), "GET") = MaxPolls

\* C20: every state but PROCESSING and FAILED counts as ready: on a response
\* whose state is neither, or that carries no state in either shape,
\* waitForFileProcessing returns that response's record, and it does not call
\* the progress callback for it.
C20_OtherStatesAreReady ==
    LET k == Len(session.statuses)
    IN (k >= 1 /\ session.statuses[k].status = 200 /\ session.statuses[k].body.form = "json"
          /\ Reported[k] \notin {"PROCESSING", "FAILED"}) =>
          /\ WaitOutcome = "returned"
          /\ session.record = session.statuses[k].body.json
          /\ Len(session.callbacks) = (IF session.hasCallback THEN k - 1 ELSE 0)
          /\ \A i \in 1..Len(session.callbacks) : session.callbacks[i] = "PROCESSING"

\* ready on a response without any state, after one PROCESSING
C20_Witness ==
    /\ Len(session.statuses) = 2
    /\ Reported = <<"PROCESSING", "">>
    /\ session.statuses[2] = HttpResponse(200, "OK", "json", NoStatus)
    /\ session.hasCallback /\ session.callbacks = <<"PROCESSING">>
    /\ session.pc = "waited"
    /\ session.record = NoStatus

\* ------------------------------------------------------------------ claims: the page

\* The selection is null or a PDF.
SelectionIsPdf == ui.selectedFile.null \/ ui.selectedFile.type = "application/pdf"

\* A file that is there and is not a PDF.
NotPdf(f) == ~f.null /\ f.type # "application/pdf"

\* C21: the selected file is always null or of type 'application/pdf'.
\* Choosing or dropping a file of another type shows the error 'Please select
\* a PDF file' and leaves the selection, the API key and the enabled state of
\* the summarize button as they were; the remove button sets the selection to
\* null.
C21_OnlyPdfSelected ==
    /\ []SelectionIsPdf
    /\ [][/\ \A f \in Files :
               (NotPdf(f) /\ (FileInputChange(f) \/ Drop(f))) =>
                  /\ ui'.errorVisible
                  /\ ui'.errorMessage = <<"Please select a PDF file">>
                  /\ ui'.selectedFile = ui.selectedFile
                  /\ ui'.apiKey = ui.apiKey
                  /\ ui'.btnDisabled = ui.btnDisabled
          /\ RemoveFileClick => ui'.selectedFile.null
         ]_vars

\* a text file was refused while a PDF stayed selected and the button enabled
C21_Witness ==
    /\ ui.errorVisible /\ ui.errorMessage = <<"Please select a PDF file">>
    /\ ~ui.selectedFile.null /\ ui.selectedFile.name = "small.pdf"
    /\ ~ui.btnDisabled

\* C22: the result section and the error section are never both visible,
\* whatever the user does and however the runs end, and the step that starts a
\* run (showLoading) leaves both hidden.
C22_ResultOrError ==
    /\ [](~(ui.resultVisible /\ ui.errorVisible))
    /\ [][(\E r \in Slots : runs[r].pc = "idle" /\ runs'[r].pc = "reading") =>
             /\ ~ui'.resultVisible /\ ~ui'.errorVisible
             /\ ui'.loadingVisible
         ]_vars

\* an error is shown where a summary was shown before
C22_Witness ==
    /\ ui.errorVisible /\ ~ui.resultVisible
    /\ ui.summaryContent # <<>>
    /\ lastRun.state = "Failed"

\* C23: whenever no run is in flight the summarize button is enabled exactly
\* when a file is selected and the API key, trimmed, is not empty: on a fresh
\* page and after every selection, removal, key input and ended run.
C23_TriggerFollowsInputs ==
    InFlight = {} =>
        (~ui.btnDisabled) =
            (/\ ~ui.selectedFile.null
             /\ ~ui.apiKey.null
             /\ \E i \in 1..Len(ui.apiKey.s) : ui.apiKey.s[i] # " ")

\* a run has failed after the user removed the file: the button is disabled
C23_Witness ==
    /\ InFlight = {}
    /\ lastRun.state = "Failed" /\ Count(lastRun.trace, "hideLoading") = 1
    /\ ui.selectedFile.null /\ ui.apiKey = [null |-> FALSE, s |-> <<"k">>]
    /\ ui.btnDisabled /\ ~ui.loadingVisible

====
